---- MODULE Spec2Model ----
(***************************************************************************)
(* Model of MasterReplicaExchangeRunner (meld/remd/master_runner.py): the  *)
(* master coordination loop of a replica exchange run.  run() is modelled  *)
(* statement by statement; pc holds the source line of the next statement  *)
(* of run() and log is the history of the calls run() has made to its      *)
(* collaborators (communicator, system_runner, adaptor, ladder, reseeder,  *)
(* store), each with the source line of the call site, the step tag passed *)
(* (arg; the value of the counter for a call that takes no tag), the       *)
(* iteration it belongs to (it), the bias vector the coordinator holds     *)
(* when the call is made (inp) and when it ends (val) and whether it       *)
(* returned or raised (ok), and the list states as it is when the call is  *)
(* made (st).                                                              *)
(***************************************************************************)
EXTENDS Integers, Sequences, FiniteSets, TLC

\* ------------------------------------------------------------------------
\* Bounds of the model
\* ------------------------------------------------------------------------
MaxSteps == 2        \* max_steps is drawn from 0..MaxSteps
NReplicas == 2       \* n_replicas of the coordinator
MaxAlpha == 1        \* the adaptor returns one of the vectors 0..MaxAlpha
MaxList == 3         \* _permute_states is applied to lists of 1..MaxList states
MaxRamp == 10        \* ramp_steps is None or drawn from -1..MaxRamp

\* The bias vectors are abstract values; InitialAlphas is the evenly spaced
\* vector built by _setup_alphas.
InitialAlphas == 0
AlphaVals == 0..MaxAlpha
ReplicaCounts == (NReplicas - 1)..(NReplicas + 1)

VARIABLES
    status,            \* "constructed", "running", "finished",
                       \* "assertion_error", "collaborator_error", "crashed"
    pc,                \* source line of the next statement of run()
    step,              \* self._step
    max_steps,         \* self._max_steps
    n_replicas,        \* self._n_replicas
    comm_n_replicas,   \* communicator.n_replicas
    store_n_replicas,  \* store.n_replicas
    alphas,            \* self._alphas
    log,               \* calls made to the collaborators, oldest first
    saved_runner,      \* coordinator state last written by save_remd_runner
    restarted,         \* TRUE once run() has been re-invoked after a crash
    states,            \* the local list states of run(): which statement
                       \* produced it, and at which step
    ramp_steps,        \* self._ramp_steps
    ramp_weight,       \* the local ramp_weight of run(), a fraction
    permutation_matrix,\* _permute_states: the permutation vector applied
    state_list,        \* _permute_states: the list of states it rewrites
    old_states,        \* the list of states before the first rewrite
    permute_phase,     \* "unused", "input", "permuted", "restored"
    alphas_list        \* the list built by _setup_alphas, of fractions

vars == <<status, pc, step, max_steps, n_replicas, comm_n_replicas,
          store_n_replicas, alphas, log, saved_runner, restarted, states,
          ramp_steps, ramp_weight, permutation_matrix, state_list,
          old_states, permute_phase, alphas_list>>

config ==
    <<max_steps, n_replicas, comm_n_replicas, store_n_replicas, ramp_steps>>

\* What _permute_states and _setup_alphas work on.
lists ==
    <<permutation_matrix, state_list, old_states, permute_phase, alphas_list>>

\* What no statement of run() but the ramp computation changes.
rest == <<ramp_weight, lists>>

\* ramp_steps = None, and ramp_steps = n.
None == [given |-> FALSE, n |-> 0]
Some(n) == [given |-> TRUE, n |-> n]

\* Fractions <<numerator, denominator>> with a positive denominator stand
\* for the floats of the source; <<0, 0>> is a variable not yet assigned.
Unassigned == <<0, 0>>
One == <<1, 1>>
RatEq(x, y) == x[1] * y[2] = y[1] * x[2]
RatLe(x, y) == x[1] * y[2] <= y[1] * x[2]

\* No list is being permuted.
ListsUnused ==
    /\ permutation_matrix = << >>
    /\ state_list = << >>
    /\ old_states = << >>
    /\ permute_phase = "unused"
    /\ alphas_list = << >>

\* No coordinator state has been persisted yet.
NoRunner == [step |-> 0, alphas |-> InitialAlphas]

\* The list states before run() has assigned it.
NoStates == [by |-> "unassigned", at |-> 0]

\* The list states as statement o left it at step k.
StatesBy(o, k) == [by |-> o, at |-> k]

\* The invocation of run() in progress: 1, or 2 after a restart.
Run == IF restarted THEN 2 ELSE 1

\* ------------------------------------------------------------------------
\* Construction
\* ------------------------------------------------------------------------
Init ==
    /\ status = "constructed"
    /\ pc = 86
    /\ step = 1
    /\ max_steps \in 0..MaxSteps
    /\ n_replicas = NReplicas
    /\ comm_n_replicas \in ReplicaCounts
    /\ store_n_replicas \in ReplicaCounts
    /\ alphas = InitialAlphas
    /\ log = << >>
    /\ saved_runner = NoRunner
    /\ restarted = FALSE
    /\ states = NoStates
    /\ ramp_steps = None
    /\ ramp_weight = Unassigned
    /\ ListsUnused

\* ------------------------------------------------------------------------
\* Calls to collaborators
\* ------------------------------------------------------------------------
Entry(l, o, a, i, v, r) ==
    [line |-> l, op |-> o, arg |-> a, it |-> i, inp |-> alphas, val |-> v,
     st |-> states, ok |-> r, run |-> Run]

\* The call at line l returns and run() goes on at line next.
Returns(l, o, a, i, v, next) ==
    /\ log' = Append(log, Entry(l, o, a, i, v, TRUE))
    /\ pc' = next
    /\ status' = status

\* The call at line l raises: the exception propagates out of run().
Raises(l, o, a, i, v) ==
    /\ log' = Append(log, Entry(l, o, a, i, v, FALSE))
    /\ pc' = pc
    /\ status' = "collaborator_error"

\* A call that changes nothing of the coordinator and leaves the list
\* states as s when it returns.
CallSetting(l, o, a, v, next, s) ==
    /\ status = "running"
    /\ pc = l
    /\ \/ Returns(l, o, a, step, v, next) /\ states' = s
       \/ Raises(l, o, a, step, v) /\ states' = states
    /\ UNCHANGED <<step, alphas, saved_runner, restarted, config, rest>>

\* A call that changes nothing of the coordinator nor of the list states.
Call(l, o, a, v, next) == CallSetting(l, o, a, v, next, states)

\* ------------------------------------------------------------------------
\* run(), lines 86-147
\* ------------------------------------------------------------------------
\* Variant of CheckReplicas that forgets the assertion on the store.
CheckReplicasCommunicatorOnly ==
    /\ status = "constructed"
    /\ IF n_replicas = comm_n_replicas
         THEN status' = "running" /\ pc' = 92
         ELSE status' = "assertion_error" /\ pc' = pc
    /\ UNCHANGED <<step, alphas, log, saved_runner, restarted, states, config, rest>>

CheckReplicas ==
    /\ status = "constructed"
    /\ IF n_replicas = comm_n_replicas /\ n_replicas = store_n_replicas
         THEN status' = "running" /\ pc' = 92
         ELSE status' = "assertion_error" /\ pc' = pc
    /\ UNCHANGED <<step, alphas, log, saved_runner, restarted, states, config, rest>>

\* Variant of LoadStates that loads the stage of the current step.
LoadStatesCurrentStage ==
    CallSetting(92, "load_states", step, alphas, 94,
                StatesBy("load_states", step))

LoadStates ==
    CallSetting(92, "load_states", step - 1, alphas, 94,
                StatesBy("load_states", step - 1))

\* Variant of LoopTest with an exclusive bound.
LoopTestExclusive ==
    /\ status = "running"
    /\ pc = 94
    /\ IF step < max_steps
         THEN pc' = 98 /\ status' = status
         ELSE pc' = 147 /\ status' = "finished"
    /\ UNCHANGED <<step, alphas, log, saved_runner, restarted, states, config, rest>>

LoopTest ==
    /\ status = "running"
    /\ pc = 94
    /\ IF step <= max_steps
         THEN pc' = 98 /\ status' = status
         ELSE pc' = 147 /\ status' = "finished"
    /\ UNCHANGED <<step, alphas, log, saved_runner, restarted, states, config, rest>>

\* Variant of _compute_ramp_weight that divides step, not step + 1.
ComputeRampWeightNoOffset ==
    IF ~ramp_steps.given
      THEN One
      ELSE IF step > ramp_steps.n
             THEN One
             ELSE <<step, ramp_steps.n>>

\* _compute_ramp_weight, lines 173-180.
ComputeRampWeight ==
    IF ~ramp_steps.given
      THEN One
      ELSE IF step > ramp_steps.n
             THEN One
             ELSE <<step + 1, ramp_steps.n>>

SetAlpha ==
    /\ status = "running"
    /\ pc = 98
    /\ ramp_weight' = ComputeRampWeight
    /\ \/ Returns(98, "set_alpha", step, step, alphas, 100)
       \/ Raises(98, "set_alpha", step, step, alphas)
    /\ UNCHANGED <<step, alphas, saved_runner, restarted, states, config,
                   lists>>

\* Variant of Adapt that drops the vector the adaptor returns.
AdaptDiscarded ==
    /\ status = "running"
    /\ pc = 100
    /\ \/ \E a \in AlphaVals : Returns(100, "adapt", step, step, a, 101)
       \/ Raises(100, "adapt", step, step, alphas)
    /\ UNCHANGED <<step, alphas, saved_runner, restarted, states, config, rest>>

Adapt ==
    /\ status = "running"
    /\ pc = 100
    /\ \/ \E a \in AlphaVals :
            /\ Returns(100, "adapt", step, step, a, 101)
            /\ alphas' = a
       \/ Raises(100, "adapt", step, step, alphas) /\ alphas' = alphas
    /\ UNCHANGED <<step, saved_runner, restarted, states, config, rest>>

BroadcastAlphas == Call(101, "broadcast_alphas_to_slaves", step, alphas, 102)

BarrierAlphas == Call(102, "barrier", step, alphas, 105)

BroadcastStates == Call(105, "broadcast_states_to_slaves", step, alphas, 106)

BarrierStates == Call(106, "barrier", step, alphas, 107)

\* Variant of Dynamics that never minimizes.
DynamicsAlwaysRun == Call(107, "run", step, alphas, 115)

Dynamics ==
    IF step = 1
      THEN Call(107, "minimize_then_run", step, alphas, 115)
      ELSE Call(107, "run", step, alphas, 115)

\* Variant of GatherStates that saves the states as soon as they are
\* gathered.
GatherStatesThenSave ==
    /\ status = "running"
    /\ pc = 115
    /\ log' = log \o <<Entry(115, "gather_states_from_slaves", step, step,
                             alphas, TRUE),
                       Entry(115, "save_states", step, step, alphas, TRUE)>>
    /\ pc' = 116
    /\ states' = StatesBy("gather_states_from_slaves", step)
    /\ UNCHANGED <<status, step, alphas, saved_runner, restarted, config, rest>>

GatherStates ==
    CallSetting(115, "gather_states_from_slaves", step, alphas, 116,
                StatesBy("gather_states_from_slaves", step))

BarrierGatherStates == Call(116, "barrier", step, alphas, 119)

BroadcastStatesForEnergy ==
    Call(119, "broadcast_states_for_energy_calc_to_slaves", step, alphas, 120)

\* Variant of BarrierEnergyStates that goes on without the barrier.
BarrierEnergyStatesOmitted ==
    /\ status = "running"
    /\ pc = 120
    /\ pc' = 123
    /\ UNCHANGED <<status, step, alphas, log, saved_runner, restarted, states,
                   config, rest>>

BarrierEnergyStates == Call(120, "barrier", step, alphas, 123)

ComputeEnergies == Call(123, "get_energy", step, alphas, 124)

GatherEnergies == Call(124, "gather_energies_from_slaves", step, alphas, 125)

BarrierEnergies == Call(125, "barrier", step, alphas, 128)

ComputeExchanges == Call(128, "compute_exchanges", step, alphas, 129)

PermuteStates ==
    /\ status = "running"
    /\ pc = 129
    /\ pc' = 132
    /\ states' = StatesBy("_permute_states", step)
    /\ UNCHANGED <<status, step, alphas, log, saved_runner, restarted, config, rest>>

\* Variant of Reseed whose changes do not reach the list run() saves.
ReseedOnCopy == Call(132, "reseed", step, alphas, 135)

\* reseed(step, states, store) may replace states of the list in place.
Reseed ==
    CallSetting(132, "reseed", step, alphas, 135, StatesBy("reseed", step))

SaveStates == Call(135, "save_states", step, alphas, 136)

AppendTraj == Call(136, "append_traj", step, alphas, 137)

SaveAlphas == Call(137, "save_alphas", step, alphas, 138)

SavePermutationVector == Call(138, "save_permutation_vector", step, alphas, 139)

SaveEnergyMatrix == Call(139, "save_energy_matrix", step, alphas, 140)

\* Line 140 makes two calls: adaptor.get_acceptance_probabilities() and then
\* store.save_acceptance_probabilities(.., step).
SaveAcceptanceProbabilities ==
    /\ status = "running"
    /\ pc = 140
    /\ LET get(r) == Entry(140, "get_acceptance_probabilities", step, step,
                           alphas, r)
           save(r) == Entry(140, "save_acceptance_probabilities", step, step,
                            alphas, r)
       IN  \/ /\ log' = log \o <<get(TRUE), save(TRUE)>>
              /\ pc' = 141
              /\ status' = status
           \/ /\ log' = log \o <<get(FALSE)>>
              /\ pc' = pc
              /\ status' = "collaborator_error"
           \/ /\ log' = log \o <<get(TRUE), save(FALSE)>>
              /\ pc' = pc
              /\ status' = "collaborator_error"
    /\ UNCHANGED <<step, alphas, saved_runner, restarted, states, config, rest>>

\* Variant of SaveDataStore that goes on without flushing the store.
SaveDataStoreOmitted ==
    /\ status = "running"
    /\ pc = 141
    /\ pc' = 144
    /\ UNCHANGED <<status, step, alphas, log, saved_runner, restarted, states,
                   config, rest>>

SaveDataStore == Call(141, "save_data_store", step, alphas, 144)

\* Variant of IncrementStep that advances the counter by two.
IncrementStepByTwo ==
    /\ status = "running"
    /\ pc = 144
    /\ step' = step + 2
    /\ pc' = 145
    /\ UNCHANGED <<status, alphas, log, saved_runner, restarted, states, config, rest>>

IncrementStep ==
    /\ status = "running"
    /\ pc = 144
    /\ step' = step + 1
    /\ pc' = 145
    /\ UNCHANGED <<status, alphas, log, saved_runner, restarted, states, config, rest>>

\* store.save_remd_runner(self) persists the coordinator as it is now, with
\* the step already advanced.  A call that raises may or may not have
\* replaced the persisted coordinator.
SaveRemdRunner ==
    /\ status = "running"
    /\ pc = 145
    /\ \/ /\ Returns(145, "save_remd_runner", step, step - 1, alphas, 146)
          /\ saved_runner' = [step |-> step, alphas |-> alphas]
       \/ /\ Raises(145, "save_remd_runner", step, step - 1, alphas)
          /\ \/ saved_runner' = saved_runner
             \/ saved_runner' = [step |-> step, alphas |-> alphas]
    /\ UNCHANGED <<step, alphas, restarted, states, config, rest>>

\* Variant of Backup that passes the counter itself, not step - 1.
BackupCurrentStep ==
    /\ status = "running"
    /\ pc = 146
    /\ \/ Returns(146, "backup", step, step - 1, alphas, 94)
       \/ Raises(146, "backup", step, step - 1, alphas)
    /\ UNCHANGED <<step, alphas, saved_runner, restarted, states, config, rest>>

\* Variant of Backup that goes on to the next iteration without the backup.
BackupOmitted ==
    /\ status = "running"
    /\ pc = 146
    /\ pc' = 94
    /\ UNCHANGED <<status, step, alphas, log, saved_runner, restarted, states,
                   config, rest>>

Backup ==
    /\ status = "running"
    /\ pc = 146
    /\ \/ Returns(146, "backup", step - 1, step - 1, alphas, 94)
       \/ Raises(146, "backup", step - 1, step - 1, alphas)
    /\ UNCHANGED <<step, alphas, saved_runner, restarted, states, config, rest>>

\* ------------------------------------------------------------------------
\* Interruption and restart from the persisted coordinator
\* ------------------------------------------------------------------------
\* The master process dies between two statements of run().
Crash ==
    /\ status = "running"
    /\ ~restarted
    /\ status' = "crashed"
    /\ UNCHANGED <<pc, step, alphas, log, saved_runner, restarted, states, config, rest>>

\* The operator re-invokes run() on the coordinator last persisted by
\* save_remd_runner, or on a freshly constructed one if none was persisted.
Restart ==
    /\ status = "crashed"
    /\ ~restarted
    /\ restarted' = TRUE
    /\ status' = "constructed"
    /\ pc' = 86
    /\ IF saved_runner = NoRunner
         THEN step' = 1 /\ alphas' = InitialAlphas
         ELSE step' = saved_runner.step /\ alphas' = saved_runner.alphas
    /\ states' = NoStates
    /\ UNCHANGED <<log, saved_runner, config, rest>>

\* ------------------------------------------------------------------------
\* Specifications
\* ------------------------------------------------------------------------
Next ==
    \/ CheckReplicas
    \/ LoadStates
    \/ LoopTest
    \/ SetAlpha
    \/ Adapt
    \/ BroadcastAlphas
    \/ BarrierAlphas
    \/ BroadcastStates
    \/ BarrierStates
    \/ Dynamics
    \/ GatherStates
    \/ BarrierGatherStates
    \/ BroadcastStatesForEnergy
    \/ BarrierEnergyStates
    \/ ComputeEnergies
    \/ GatherEnergies
    \/ BarrierEnergies
    \/ ComputeExchanges
    \/ PermuteStates
    \/ Reseed
    \/ SaveStates
    \/ AppendTraj
    \/ SaveAlphas
    \/ SavePermutationVector
    \/ SaveEnergyMatrix
    \/ SaveAcceptanceProbabilities
    \/ SaveDataStore
    \/ IncrementStep
    \/ SaveRemdRunner
    \/ Backup

\* One invocation of run() on a freshly constructed coordinator.
Spec == Init /\ [][Next]_vars

NextRestart ==
    \/ Next
    \/ Crash
    \/ Restart

\* run(), interrupted at most once and re-invoked.
SpecRestart == Init /\ [][NextRestart]_vars

\* ------------------------------------------------------------------------
\* Reading the call history
\* ------------------------------------------------------------------------
\* The operations of the communicator, all of them collective.
CommOps ==
    {"broadcast_alphas_to_slaves", "barrier", "broadcast_states_to_slaves",
     "gather_states_from_slaves",
     "broadcast_states_for_energy_calc_to_slaves",
     "gather_energies_from_slaves"}

\* The broadcasts and gathers of the communicator.
CommDataOps == CommOps \ {"barrier"}

\* The operations of the simulation runner.
RunnerOps == {"set_alpha", "minimize_then_run", "run", "get_energy"}

\* The per-step artifacts written to the store, each tagged with the step.
ArtifactOps ==
    {"save_states", "append_traj", "save_alphas", "save_permutation_vector",
     "save_energy_matrix", "save_acceptance_probabilities"}

\* The store calls that take a step tag.
TaggedOps == ArtifactOps \cup {"backup"}

\* Every store write of an iteration.
StoreWrites == TaggedOps \cup {"save_data_store", "save_remd_runner"}

Idx == 1..Len(log)

Last == log[Len(log)]

\* The calls of operation o with tag k that returned.
Done(o, k) == {i \in Idx : log[i].op = o /\ log[i].arg = k /\ log[i].ok}

\* The calls of operation o with tag k that returned before call i, in the
\* invocation of run() that made call i.
DoneBefore(o, k, i) ==
    {j \in Done(o, k) : j < i /\ log[j].run = log[i].run}

\* The step at which invocation r of run() started: load_states is called
\* with stage = step - 1.
StartStep(r) ==
    LET i == CHOOSE i \in Idx : log[i].op = "load_states" /\ log[i].run = r
    IN  log[i].arg + 1

\* The phases of an iteration named by section 5 of the specification.
PhaseOf(o) ==
    CASE o = "broadcast_alphas_to_slaves" -> 1
      [] o = "broadcast_states_to_slaves" -> 2
      [] o \in {"minimize_then_run", "run"} -> 3
      [] o = "gather_states_from_slaves" -> 4
      [] o = "broadcast_states_for_energy_calc_to_slaves" -> 5
      [] o = "gather_energies_from_slaves" -> 6
      [] OTHER -> 0

\* A barrier was called after call m and before call i.
BarrierBetween(m, i) == \E j \in (m + 1)..(i - 1) : log[j].op = "barrier"

\* The latest call before i that belongs to phase p of the iteration of i
\* (0 if there is none).
PhaseCall(p, i) ==
    LET S == {m \in 1..(i - 1) : /\ PhaseOf(log[m].op) = p
                                 /\ log[m].run = log[i].run
                                 /\ log[m].it = log[i].it}
    IN  IF S = {} THEN 0 ELSE CHOOSE m \in S : \A n \in S : n <= m

\* ------------------------------------------------------------------------
\* C1
\* ------------------------------------------------------------------------
\* C1: a full run of a fresh coordinator with max_steps = K in which no
\* collaborator fails calls save_states, append_traj, save_alphas,
\* save_permutation_vector, save_energy_matrix,
\* save_acceptance_probabilities and backup exactly once with each tag 1..K
\* and with no other tag, in increasing order of the tags, and the step
\* persisted by the last save_remd_runner call is K + 1.
C1_FullRunCheckpoints ==
    status = "finished" =>
        /\ \A o \in TaggedOps :
              /\ \A k \in 1..max_steps : Cardinality(Done(o, k)) = 1
              /\ \A i \in Idx : log[i].op = o => log[i].arg \in 1..max_steps
              /\ \A i, j \in Idx :
                    (log[i].op = o /\ log[j].op = o /\ i < j)
                        => log[i].arg < log[j].arg
        /\ max_steps >= 1 =>
              /\ saved_runner.step = max_steps + 1
              /\ \E i \in Idx :
                    /\ log[i].op = "save_remd_runner"
                    /\ log[i].ok
                    /\ log[i].arg = max_steps + 1
                    /\ \A j \in Idx :
                          log[j].op = "save_remd_runner" => j <= i

C1_Witness ==
    /\ status = "finished"
    /\ max_steps >= 2
    /\ saved_runner.step = max_steps + 1

\* ------------------------------------------------------------------------
\* C2
\* ------------------------------------------------------------------------
\* C2: when n_replicas differs from communicator.n_replicas or from
\* store.n_replicas, run() never gets past the assertions: no call to any
\* collaborator is made and step and alphas keep their constructed values.
C2_MismatchIsFatal ==
    (n_replicas # comm_n_replicas \/ n_replicas # store_n_replicas) =>
        /\ status \in {"constructed", "assertion_error"}
        /\ log = << >>
        /\ step = 1
        /\ alphas = InitialAlphas

C2_Witness ==
    /\ status = "assertion_error"
    /\ n_replicas = comm_n_replicas
    /\ n_replicas # store_n_replicas

\* ------------------------------------------------------------------------
\* C3
\* ------------------------------------------------------------------------
\* C3: when a collaborator call fails during the iteration for step k,
\* run() has aborted without any artifact tagged k written to the store.
C3_NoPartialCheckpoint ==
    status = "collaborator_error" =>
        \A o \in ArtifactOps : Done(o, Last.it) = {}

\* ------------------------------------------------------------------------
\* C4
\* ------------------------------------------------------------------------
\* C4 as stated: the step counter is advanced only after save_states,
\* append_traj, save_alphas, save_permutation_vector, save_energy_matrix,
\* save_acceptance_probabilities, save_data_store, save_remd_runner and
\* backup of that step have all completed.
C4_AdvanceAfterAllNine ==
    [][step' # step =>
          /\ \A o \in ArtifactOps \cup {"save_data_store"} :
                Done(o, step) # {}
          /\ Done("save_remd_runner", step + 1) # {}
          /\ Done("backup", step) # {}]_vars

\* C4 amended: the step counter is advanced after the six artifacts of the
\* step and the flush have completed and before save_remd_runner and
\* backup are called; save_remd_runner persists a counter one above the
\* step whose artifacts were just written and flushed, and backup(k) is
\* called with the counter at k + 1.
C4_AdvanceBeforeRunnerSave ==
    [][/\ step' # step =>
             /\ \A o \in ArtifactOps \cup {"save_data_store"} :
                   Done(o, step) # {}
             /\ \A i \in Idx :
                   log[i].op \in {"save_remd_runner", "backup"}
                       => log[i].it < step
       /\ (Len(log') > Len(log) /\ Last'.op = "save_remd_runner") =>
             /\ Last'.arg = step
             /\ \A o \in ArtifactOps \cup {"save_data_store"} :
                   Done(o, Last'.arg - 1) # {}
       /\ (Len(log') > Len(log) /\ Last'.op = "backup") =>
             /\ Last'.arg = step - 1
             /\ Done("save_remd_runner", step) # {}]_vars

C4_Witness ==
    /\ status = "running"
    /\ pc = 94
    /\ step = 2
    /\ Last.op = "backup"
    /\ Last.ok

\* ------------------------------------------------------------------------
\* C5
\* ------------------------------------------------------------------------
\* C5: when run() issues a store write tagged k, for k above the step the
\* run started at, backup(k-1) has completed in that run, and before that
\* backup all six artifacts tagged k-1 were written and the store flushed.
C5_RollbackTarget ==
    (log # << >> /\ Last.op \in TaggedOps
       /\ Last.arg > StartStep(Last.run)) =>
        LET i == Len(log)
            k == Last.arg
            B == DoneBefore("backup", k - 1, i)
        IN  /\ B # {}
            /\ \A b \in B :
                  \A o \in ArtifactOps \cup {"save_data_store"} :
                      DoneBefore(o, k - 1, b) # {}

C5_Witness ==
    /\ log # << >>
    /\ Last.op = "save_states"
    /\ Last.arg = 2
    /\ Last.run = 1

\* ------------------------------------------------------------------------
\* C6
\* ------------------------------------------------------------------------
\* C6: when run() is interrupted by a crash and re-invoked from the last
\* persisted coordinator, then once the re-invoked run has finished every
\* artifact of every step 1..max_steps has been persisted exactly once over
\* the whole history.
C6_ExactlyOnce ==
    status = "finished" =>
        \A o \in ArtifactOps :
            \A k \in 1..max_steps : Cardinality(Done(o, k)) = 1

\* ------------------------------------------------------------------------
\* C7
\* ------------------------------------------------------------------------
\* C7 as stated: 1 <= step <= max_steps in every state reached during
\* run(), the states in which save_remd_runner and backup are called
\* included.
C7_StepWithinMax ==
    (status = "running" /\ max_steps >= 1) =>
        (1 <= step /\ step <= max_steps)

\* C7 amended: the step counter starts at 1 and satisfies
\* 1 <= step <= max_steps + 1; it is at most max_steps from the loop test
\* to the increment, and one above the step just written when
\* save_remd_runner and backup are called; it changes only at the
\* increment, by one, once per completed iteration.
C7_StepRange ==
    /\ [](/\ 1 <= step
          /\ step <= max_steps + 1
          /\ (status = "running" /\ pc \in 98..144) => step <= max_steps
          /\ (status = "running" /\ pc \in {145, 146}) =>
                Done("save_data_store", step - 1) # {}
          /\ (status \in {"running", "finished"} /\ pc \in {94, 147}) =>
                step = 1 + Cardinality({i \in Idx : /\ log[i].op = "backup"
                                                    /\ log[i].ok}))
    /\ [][step' # step => (step' = step + 1 /\ pc = 144)]_vars

C7_Witness ==
    /\ status = "running"
    /\ pc = 146
    /\ max_steps >= 1
    /\ step = max_steps + 1

\* ------------------------------------------------------------------------
\* C8
\* ------------------------------------------------------------------------
\* C8: a communicator or simulation-runner operation of step k+1 is issued
\* only after every store write of step k, the flush, the save of the
\* coordinator and backup(k) have returned.
C8_NoOverlap ==
    (log # << >> /\ Last.op \in CommOps \cup RunnerOps
       /\ Last.it > StartStep(Last.run)) =>
        LET i == Len(log)
            k == Last.it - 1
        IN  /\ \A o \in ArtifactOps \cup {"save_data_store", "backup"} :
                  DoneBefore(o, k, i) # {}
            /\ DoneBefore("save_remd_runner", k + 1, i) # {}

C8_Witness ==
    /\ log # << >>
    /\ Last.op = "set_alpha"
    /\ Last.it = 2

\* ------------------------------------------------------------------------
\* C9
\* ------------------------------------------------------------------------
\* C9 as stated: each of the phases state broadcast, dynamics, state
\* gather, energy broadcast and energy gather starts only after a barrier
\* called after the phase before it.
C9_BarrierBetweenPhases ==
    (log # << >> /\ PhaseOf(Last.op) >= 2) =>
        LET i == Len(log)
            m == PhaseCall(PhaseOf(Last.op) - 1, i)
        IN  m # 0 /\ BarrierBetween(m, i)

\* C9 amended: every broadcast and gather of the communicator is followed
\* at once by a barrier, so that state broadcast, dynamics, energy
\* broadcast and energy gather start only after a barrier called after the
\* phase before them; the state gather follows the dynamics call directly,
\* with no barrier between the two.
C9_BarrierAfterCollective ==
    /\ \A i \in Idx :
          (log[i].op \in CommDataOps /\ log[i].ok /\ i < Len(log))
              => log[i + 1].op = "barrier"
    /\ (log # << >> /\ PhaseOf(Last.op) \in {2, 3, 5, 6}) =>
          LET i == Len(log)
              m == PhaseCall(PhaseOf(Last.op) - 1, i)
          IN  m # 0 /\ BarrierBetween(m, i)
    /\ (log # << >> /\ PhaseOf(Last.op) = 4) =>
          LET i == Len(log)
          IN  PhaseCall(3, i) = i - 1

C9_Witness ==
    /\ log # << >>
    /\ Last.op = "gather_energies_from_slaves"
    /\ Last.ok
    /\ Last.it = 2

\* ------------------------------------------------------------------------
\* C10
\* ------------------------------------------------------------------------
\* C10: a store write of an iteration is issued only after the barrier
\* that follows gather_energies_from_slaves, the exchange computation and
\* the reseed hook of that iteration have returned, in this order, and no
\* collective operation of an iteration is issued after a store write of
\* that iteration.
C10_WritesAfterCollectives ==
    /\ (log # << >> /\ Last.op \in StoreWrites) =>
          LET Returned(j, o) == /\ log[j].op = o
                                /\ log[j].ok
                                /\ log[j].run = Last.run
                                /\ log[j].it = Last.it
          IN  \E r \in 1..(Len(log) - 1) :
                /\ Returned(r, "reseed")
                /\ \E x \in 1..(r - 1) :
                      /\ Returned(x, "compute_exchanges")
                      /\ \E b \in 1..(x - 1) :
                            /\ Returned(b, "barrier")
                            /\ log[b].line = 125
    /\ (log # << >> /\ Last.op \in CommOps) =>
          \A j \in Idx :
              (log[j].run = Last.run /\ log[j].it = Last.it)
                  => log[j].op \notin StoreWrites

C10_Witness ==
    /\ log # << >>
    /\ Last.op = "backup"
    /\ Last.ok
    /\ Last.arg = 2

\* ------------------------------------------------------------------------
\* C11
\* ------------------------------------------------------------------------
\* The calls that advance the master's state.
DynamicsOps == {"minimize_then_run", "run"}

\* The dynamics calls made before call i in the iteration of call i.
DynamicsBefore(i) ==
    {j \in 1..(i - 1) : /\ log[j].op \in DynamicsOps
                        /\ log[j].run = log[i].run
                        /\ log[j].it = log[i].it}

\* C11: in every iteration, also of a run resumed at a step above 1, the
\* master advances its state exactly once: by minimize_then_run if and only
\* if the step counter is 1 and by run otherwise, never by both.
C11_OneDynamicsCall ==
    /\ (log # << >> /\ Last.op \in DynamicsOps) =>
          /\ (Last.op = "minimize_then_run") <=> (step = 1)
          /\ Last.it = step
          /\ DynamicsBefore(Len(log)) = {}
    /\ (log # << >> /\ Last.op = "gather_states_from_slaves") =>
          \E j \in DynamicsBefore(Len(log)) :
              /\ log[j].ok
              /\ DynamicsBefore(Len(log)) = {j}

C11_Witness ==
    /\ log # << >>
    /\ Last.op = "run"
    /\ Last.ok
    /\ Last.run = 2
    /\ Last.it = 2

\* ------------------------------------------------------------------------
\* C12
\* ------------------------------------------------------------------------
\* The adapt calls that returned before call i in the invocation of run()
\* that made call i.
AdaptBefore(i) ==
    {j \in 1..(i - 1) : /\ log[j].op = "adapt"
                        /\ log[j].ok
                        /\ log[j].run = log[i].run}

\* The latest of a non-empty set of calls.
Latest(S) == CHOOSE m \in S : \A n \in S : n <= m

\* C12: in iteration k the adaptor is called once, with step k and with the
\* vector returned by the adaptor in iteration k-1 (the initial evenly
\* spaced vector in the first iteration); the vector it returns is the one
\* broadcast in iteration k and the one saved with tag k.
C12_AlphaChain ==
    /\ (log # << >> /\ Last.op = "adapt") =>
          LET A == AdaptBefore(Len(log))
          IN  /\ Last.arg = Last.it
              /\ \A j \in A : log[j].it < Last.it
              /\ IF A = {} THEN Last.inp = InitialAlphas
                           ELSE /\ Last.inp = log[Latest(A)].val
                                /\ log[Latest(A)].it = Last.it - 1
    /\ (log # << >> /\ Last.op \in {"broadcast_alphas_to_slaves",
                                    "save_alphas"}) =>
          LET A == AdaptBefore(Len(log))
          IN  /\ A # {}
              /\ log[Latest(A)].it = Last.it
              /\ log[Latest(A)].arg = Last.arg
              /\ log[Latest(A)].val = Last.val

C12_Witness ==
    /\ log # << >>
    /\ Last.op = "save_alphas"
    /\ Last.ok
    /\ Last.arg = 2
    /\ Last.val # InitialAlphas
    /\ \E j \in AdaptBefore(Len(log)) :
          log[j].it = 1 /\ log[j].val # Last.val

\* ------------------------------------------------------------------------
\* C13
\* ------------------------------------------------------------------------
\* The calls of operation o made before call i in the iteration of call i.
SameIterBefore(o, i) ==
    {j \in 1..(i - 1) : /\ log[j].op = o
                        /\ log[j].run = log[i].run
                        /\ log[j].it = log[i].it}

\* C13: the reseed hook is called once per step, with the current step,
\* on the list as _permute_states left it and before any store write of
\* the step; save_states and append_traj receive the list as the reseed
\* hook left it.
C13_ReseedBeforePersistence ==
    /\ (log # << >> /\ Last.op = "reseed") =>
          /\ Last.arg = Last.it
          /\ Last.st = StatesBy("_permute_states", Last.arg)
          /\ SameIterBefore("reseed", Len(log)) = {}
          /\ \A o \in StoreWrites : SameIterBefore(o, Len(log)) = {}
    /\ (log # << >> /\ Last.op \in StoreWrites) =>
          \E r \in SameIterBefore("reseed", Len(log)) :
              /\ log[r].ok
              /\ SameIterBefore("reseed", Len(log)) = {r}
    /\ (log # << >> /\ Last.op \in {"save_states", "append_traj"}) =>
          Last.st = StatesBy("reseed", Last.arg)

C13_Witness ==
    /\ log # << >>
    /\ Last.op = "append_traj"
    /\ Last.ok
    /\ Last.arg = 2
    /\ Last.st = StatesBy("reseed", 2)

\* ------------------------------------------------------------------------
\* _permute_states, lines 160-167
\* ------------------------------------------------------------------------
\* The coordinator is not running while a list is permuted on its own.
RunUnused ==
    /\ status = "constructed"
    /\ pc = 86
    /\ step = 1
    /\ max_steps = 0
    /\ n_replicas = NReplicas
    /\ comm_n_replicas = NReplicas
    /\ store_n_replicas = NReplicas
    /\ alphas = InitialAlphas
    /\ log = << >>
    /\ saved_runner = NoRunner
    /\ restarted = FALSE
    /\ states = NoStates
    /\ ramp_steps = None
    /\ ramp_weight = Unassigned

\* The slots of a list of n states, numbered as in the source.
Slots(n) == 0..(n - 1)

\* The energies the states of a list may have.
EnergyVals == {0, 1}

\* The lists of n states: each state has positions of its own.
StateLists(n) ==
    {[i \in Slots(n) |-> [positions |-> pos[i], energy |-> en[i]]] :
        pos \in {f \in [Slots(n) -> 1..n] :
                    \A i, j \in Slots(n) : f[i] = f[j] => i = j},
        en \in [Slots(n) -> EnergyVals]}

\* Variant of PermuteLoop without the snapshots: each slot reads the list
\* as the loop has rewritten it so far.
RECURSIVE PermuteLoopNoSnapshot(_, _, _, _, _)
PermuteLoopNoSnapshot(permutation, sts, old_coords, old_energy, i) ==
    IF i \notin DOMAIN permutation
      THEN sts
      ELSE PermuteLoopNoSnapshot(
               permutation,
               [sts EXCEPT ![i] = [positions |-> sts[permutation[i]].positions,
                                   energy |-> sts[permutation[i]].energy]],
               old_coords, old_energy, i + 1)

\* The loop of lines 164-166, from slot i on: slot i takes the positions
\* and the energy that the snapshots old_coords and old_energy hold at
\* index permutation[i].
RECURSIVE PermuteLoop(_, _, _, _, _)
PermuteLoop(permutation, sts, old_coords, old_energy, i) ==
    IF i \notin DOMAIN permutation
      THEN sts
      ELSE PermuteLoop(
               permutation,
               [sts EXCEPT ![i] = [positions |-> old_coords[permutation[i]],
                                   energy |-> old_energy[permutation[i]]]],
               old_coords, old_energy, i + 1)

\* Variant of _permute_states that moves the positions and leaves the
\* energies where they are.
PermuteStatesPositionsOnly(permutation, sts) ==
    [i \in DOMAIN sts |->
        IF i \in DOMAIN permutation
          THEN [positions |-> sts[permutation[i]].positions,
                energy |-> sts[i].energy]
          ELSE sts[i]]

\* _permute_states(permutation_matrix, states): the list it returns, which
\* is the list it was given, rewritten in place.
PermuteStatesOf(permutation, sts) ==
    LET old_coords == [i \in DOMAIN sts |-> sts[i].positions]
        old_energy == [i \in DOMAIN sts |-> sts[i].energy]
    IN  PermuteLoop(permutation, sts, old_coords, old_energy, 0)

IsBijection(permutation) ==
    \A j \in DOMAIN permutation :
        \E i \in DOMAIN permutation :
            /\ permutation[i] = j
            /\ \A k \in DOMAIN permutation : permutation[k] = j => k = i

Inverse(permutation) ==
    [j \in DOMAIN permutation |->
        CHOOSE i \in DOMAIN permutation : permutation[i] = j]

Identity(n) == [i \in Slots(n) |-> i]

InitPermute ==
    /\ RunUnused
    /\ alphas_list = << >>
    /\ permute_phase = "input"
    /\ \E n \in 1..MaxList :
          /\ permutation_matrix \in [Slots(n) -> Slots(n)]
          /\ state_list \in StateLists(n)
    /\ old_states = state_list

\* One call of _permute_states with the permutation vector.
ApplyPermutation ==
    /\ permute_phase = "input"
    /\ state_list' = PermuteStatesOf(permutation_matrix, state_list)
    /\ permute_phase' = "permuted"
    /\ UNCHANGED <<status, pc, step, alphas, log, saved_runner, restarted,
                   states, config, ramp_weight, permutation_matrix,
                   old_states, alphas_list>>

\* A second call of _permute_states, with the inverse of the vector.
ApplyInverse ==
    /\ permute_phase = "permuted"
    /\ IsBijection(permutation_matrix)
    /\ state_list' = PermuteStatesOf(Inverse(permutation_matrix), state_list)
    /\ permute_phase' = "restored"
    /\ UNCHANGED <<status, pc, step, alphas, log, saved_runner, restarted,
                   states, config, ramp_weight, permutation_matrix,
                   old_states, alphas_list>>

NextPermute ==
    \/ ApplyPermutation
    \/ ApplyInverse

SpecPermute == InitPermute /\ [][NextPermute]_vars

\* ------------------------------------------------------------------------
\* C14
\* ------------------------------------------------------------------------
\* C14: after _permute_states(P, states) with as many entries in P as
\* states, every slot i holds the positions and the energy that slot P[i]
\* held before the call, also when P is a swap or a cycle; with the
\* identity permutation the list is unchanged.
C14_SlotTakesSource ==
    permute_phase = "permuted" =>
        /\ DOMAIN state_list = DOMAIN old_states
        /\ \A i \in DOMAIN state_list :
              /\ state_list[i].positions =
                    old_states[permutation_matrix[i]].positions
              /\ state_list[i].energy =
                    old_states[permutation_matrix[i]].energy
        /\ permutation_matrix = Identity(Cardinality(DOMAIN state_list))
              => state_list = old_states

C14_Witness ==
    /\ permute_phase = "permuted"
    /\ permutation_matrix = (0 :> 1 @@ 1 :> 2 @@ 2 :> 0)
    /\ state_list # old_states
    /\ state_list[0] = old_states[1]

\* ------------------------------------------------------------------------
\* C15
\* ------------------------------------------------------------------------
\* C15: for a bijection P, _permute_states with P followed by
\* _permute_states with the inverse of P gives back the original list.
C15_RoundTrip ==
    permute_phase = "restored" => state_list = old_states

C15_Witness ==
    /\ permute_phase = "restored"
    /\ permutation_matrix = (0 :> 2 @@ 1 :> 0 @@ 2 :> 1)
    /\ old_states[0].positions # old_states[1].positions
    /\ old_states[0].energy # old_states[2].energy

\* ------------------------------------------------------------------------
\* The ramp weights of the successive iterations of run()
\* ------------------------------------------------------------------------
RampChoices == {None} \cup {Some(n) : n \in (0 - 1)..MaxRamp}

\* A coordinator at the loop test of its first iteration, with enough
\* steps to run to see the ramp end.
InitRamp ==
    /\ status = "running"
    /\ pc = 94
    /\ step = 1
    /\ max_steps = MaxRamp + 2
    /\ n_replicas = NReplicas
    /\ comm_n_replicas = NReplicas
    /\ store_n_replicas = NReplicas
    /\ alphas = InitialAlphas
    /\ log = << >>
    /\ saved_runner = NoRunner
    /\ restarted = FALSE
    /\ states = NoStates
    /\ ramp_steps \in RampChoices
    /\ ramp_weight = Unassigned
    /\ ListsUnused

\* One iteration of the loop in which every collaborator returns, as far
\* as the ramp is concerned: the loop test (line 94), the weight passed to
\* set_alpha (lines 98-99) and the increment of the counter (line 144).
RampIteration ==
    /\ status = "running"
    /\ pc = 94
    /\ step <= max_steps
    /\ ramp_weight' = ComputeRampWeight
    /\ step' = step + 1
    /\ UNCHANGED <<status, pc, alphas, log, saved_runner, restarted, states,
                   config, lists>>

NextRamp == RampIteration

SpecRamp == InitRamp /\ [][NextRamp]_vars

\* ------------------------------------------------------------------------
\* C16
\* ------------------------------------------------------------------------
\* C16: for ramp_steps >= 1 the weight passed to set_alpha lies in [0, 1]
\* at every step and never decreases from one step to the next.
C16_WeightInUnitInterval ==
    /\ []((ramp_steps.given /\ ramp_steps.n >= 1
             /\ ramp_weight # Unassigned) =>
            (RatLe(<<0, 1>>, ramp_weight) /\ RatLe(ramp_weight, One)))
    /\ [][(ramp_steps.given /\ ramp_steps.n >= 1
             /\ ramp_weight # Unassigned) =>
            RatLe(ramp_weight, ramp_weight')]_vars

\* ------------------------------------------------------------------------
\* C17
\* ------------------------------------------------------------------------
\* C17: _compute_ramp_weight returns exactly 1.0 when ramp_steps is None or
\* step > ramp_steps, and (step + 1) / ramp_steps when step <= ramp_steps;
\* with ramp_steps = 10 and step = 5 it returns 6/10.  (The weight held
\* after an iteration was computed at step - 1.)
C17_RampWeightValue ==
    ramp_weight # Unassigned =>
        LET k == step - 1
        IN  /\ (~ramp_steps.given \/ k > ramp_steps.n) => ramp_weight = One
            /\ (ramp_steps.given /\ k <= ramp_steps.n) =>
                  /\ ramp_weight[2] > 0
                  /\ RatEq(ramp_weight, <<k + 1, ramp_steps.n>>)
            /\ (ramp_steps = Some(10) /\ k = 5) =>
                  RatEq(ramp_weight, <<6, 10>>)

C17_Witness ==
    /\ ramp_steps = Some(10)
    /\ step = 6
    /\ ramp_weight = <<6, 10>>

\* ------------------------------------------------------------------------
\* __init__ and _setup_alphas, lines 45-67 and 169-171
\* ------------------------------------------------------------------------
\* The replica counts a coordinator may be constructed with.
ConstructorCounts == (0 - 2)..(NReplicas + 2)

\* _setup_alphas for n replicas: delta = 1.0 / (n - 1.0), and the list
\* [i * delta for i in range(n)], which is empty when n <= 0.
SetupAlphas(n) == [i \in 0..(n - 1) |-> <<i, n - 1>>]

\* Before __init__ is called with n_replicas, max_steps and ramp_steps.
InitConstruct ==
    /\ status = "new"
    /\ pc = 45
    /\ step = 0
    /\ max_steps \in 0..MaxSteps
    /\ n_replicas \in ConstructorCounts
    /\ comm_n_replicas = NReplicas
    /\ store_n_replicas = NReplicas
    /\ alphas = InitialAlphas
    /\ log = << >>
    /\ saved_runner = NoRunner
    /\ restarted = FALSE
    /\ states = NoStates
    /\ ramp_steps \in RampChoices
    /\ ramp_weight = Unassigned
    /\ ListsUnused

\* __init__: step is set (line 59) before _setup_alphas (line 65) divides
\* by n_replicas - 1.0, which raises ZeroDivisionError when n_replicas = 1.
Construct ==
    /\ status = "new"
    /\ step' = 1
    /\ IF n_replicas - 1 = 0
         THEN /\ status' = "zero_division_error"
              /\ pc' = 170
              /\ alphas_list' = alphas_list
         ELSE /\ status' = "constructed"
              /\ pc' = 86
              /\ alphas_list' = SetupAlphas(n_replicas)
    /\ UNCHANGED <<alphas, log, saved_runner, restarted, states, config,
                   ramp_weight, permutation_matrix, state_list, old_states,
                   permute_phase>>

NextConstruct == Construct

SpecConstruct == InitConstruct /\ [][NextConstruct]_vars

\* ------------------------------------------------------------------------
\* C18
\* ------------------------------------------------------------------------
\* C18: construction with n_replicas < 2 fails and yields no coordinator;
\* with n_replicas = N >= 2 it yields a coordinator with step = 1 and N
\* alphas, alphas[i] = i / (N - 1), the first 0 and the last 1.
C18_LadderOrFatal ==
    status # "new" =>
        /\ n_replicas < 2 => status = "zero_division_error"
        /\ n_replicas >= 2 =>
              /\ status = "constructed"
              /\ step = 1
              /\ DOMAIN alphas_list = 0..(n_replicas - 1)
              /\ \A i \in DOMAIN alphas_list :
                    RatEq(alphas_list[i], <<i, n_replicas - 1>>)
              /\ RatEq(alphas_list[0], <<0, 1>>)
              /\ RatEq(alphas_list[n_replicas - 1], One)

\* ------------------------------------------------------------------------
\* C19
\* ------------------------------------------------------------------------
\* The interpreter goes on executing run() and every collaborator call
\* ends, by returning or by raising; a crashed master is re-invoked.  A
\* crash is never bound to happen.
SpecRestartFair == SpecRestart /\ WF_vars(Next) /\ WF_vars(Restart)

\* run() has ended: normally, or by an exception.
Ended == status \in {"finished", "assertion_error", "collaborator_error"}

\* The iterations that invocation r of run() has started.
Iterations(r) ==
    {log[i].it : i \in {j \in Idx : log[j].run = r
                                      /\ log[j].op # "load_states"}}

\* C19: run() always ends, and normally unless a collaborator raised or
\* the replica counts differ; a run started at step s that ends normally
\* has made the iterations s..max_steps, max_steps - s + 1 of them, and
\* holds step = max_steps + 1 when s <= max_steps, and has made no
\* iteration and no call but load_states when s > max_steps.
C19_RunsToMaxSteps ==
    /\ <>Ended
    /\ [](status = "finished" =>
            LET s == StartStep(Run)
            IN  /\ step > max_steps
                /\ Iterations(Run) = s..max_steps
                /\ s <= max_steps =>
                      /\ step = max_steps + 1
                      /\ Cardinality(Iterations(Run)) = max_steps - s + 1
                /\ s > max_steps =>
                      /\ step = s
                      /\ \A i \in Idx :
                            log[i].run = Run => log[i].op = "load_states")

C19_Witness ==
    /\ status = "finished"
    /\ restarted
    /\ StartStep(2) = 2
    /\ max_steps = 2
    /\ step = 3

\* ------------------------------------------------------------------------
\* C20
\* ------------------------------------------------------------------------
\* The load_states calls of invocation r of run().
Loads(r) == {j \in Idx : log[j].op = "load_states" /\ log[j].run = r}

\* C20: every invocation of run() calls load_states once, as its first
\* call and with stage = step - 1; when save_remd_runner is called with a
\* coordinator at step s, save_states tagged s-1 and then the flush have
\* returned in that invocation; so the stage that a re-invoked run loads
\* is 0 or a stage saved before.
C20_RestartStageSaved ==
    /\ (log # << >> /\ Last.op = "load_states") => Last.arg = step - 1
    /\ log # << >> =>
          \E l \in Loads(Last.run) :
              /\ Loads(Last.run) = {l}
              /\ \A j \in Idx : log[j].run = Last.run => l <= j
              /\ Last.op # "load_states" => log[l].ok
              /\ log[l].arg = 0 \/ Done("save_states", log[l].arg) # {}
    /\ (log # << >> /\ Last.op = "save_remd_runner") =>
          \E f \in DoneBefore("save_data_store", Last.arg - 1, Len(log)) :
              DoneBefore("save_states", Last.arg - 1, f) # {}
    /\ saved_runner # NoRunner =>
          Done("save_states", saved_runner.step - 1) # {}

C20_Witness ==
    /\ log # << >>
    /\ Last.op = "load_states"
    /\ Last.ok
    /\ Last.run = 2
    /\ Last.arg = 1

====
